---- MODULE Spec2Model ----
(***************************************************************************)
(* State-machine model of rpi-video-player/static/js/main.js: the browser  *)
(* side controller of a remote video player.  The client state is the      *)
(* closure state of the DOMContentLoaded handler (currentPlaylist,         *)
(* currentlyPlayingIndex), the DOM facets it writes, and the requests it   *)
(* has in flight.  The remote service is modelled from its request/response*)
(* contract only.                                                          *)
(***************************************************************************)
EXTENDS Integers, Sequences, FiniteSets, TLC

\* ------------------------------------------------------------------ bounds
\* number of flows (user gestures, timer ticks) started after page load
MaxFlows == 1
\* the same, in the runs where two user flows race
MaxRaceFlows == 2

\* ------------------------------------------------------------- value sets
Files == {"a.mp4", "b.mp4", "c.mp4"}

NameOf(f) ==
  CASE f = "a.mp4" -> "A"
    [] f = "b.mp4" -> "B"
    [] f = "c.mp4" -> "C"
    [] OTHER -> f

Entry(f) == [name |-> NameOf(f), filename |-> f]

BlackScreen == [name |-> "Black Screen", filename |-> "black.mp4"]

\* JavaScript null in the currentIndex field of a status body
NullIndex == -2

Commands == {"play", "pause", "stop", "next", "previous"}

\* server-reported reasons of a non-2xx body {error: r}
Reasons == {"", "unsupported format"}

\* playlists the remote service may hold when the page is loaded
InitialPlaylists ==
  { <<>>, <<Entry("a.mp4"), Entry("b.mp4"), Entry("c.mp4")>> }

\* the same, in the runs where two user flows race
RacePlaylists == { <<Entry("a.mp4"), Entry("b.mp4")>> }

\* the same, in the runs where the user drags twice
DragPlaylists == { <<Entry("a.mp4")>>, <<Entry("a.mp4"), Entry("b.mp4")>> }

\* ---------------------------------------------------------------- helpers
Range(s) == {s[i] : i \in 1..Len(s)}

Filenames(pl) == [i \in 1..Len(pl) |-> pl[i].filename]

\* String.prototype.includes
Includes(text, sub) ==
  \E i \in 1..(Len(text) - Len(sub) + 1) : SubSeq(text, i, i + Len(sub) - 1) = sub

RECURSIVE FilterSeq(_, _)
\* the subsequence of s whose elements are in set keep
FilterSeq(s, keep) ==
  IF s = <<>> THEN <<>>
  ELSE IF Head(s) \in keep THEN <<Head(s)>> \o FilterSeq(Tail(s), keep)
       ELSE FilterSeq(Tail(s), keep)

\* Array.prototype.find(video => video.filename === filename): the first
\* match, as a sequence of length 0 (undefined) or 1
Find(pl, f) ==
  LET hits == {i \in 1..Len(pl) : pl[i].filename = f}
  IN IF hits = {} THEN <<>>
     ELSE <<pl[CHOOSE i \in hits : \A j \in hits : i <= j]>>

\* the entries of pl that order names, left in the order of pl
MapFindKeepOrder(order, pl) == FilterSeq(pl, {e \in Range(pl) : e.filename \in Range(order)})

RECURSIVE MapFind(_, _)
\* newOrderedFilenames.map(find).filter(Boolean)
MapFind(order, pl) ==
  IF order = <<>> THEN <<>>
  ELSE Find(pl, Head(order)) \o MapFind(Tail(order), pl)

\* move the element at position i of s to position j
MoveTo(s, i, j) ==
  LET rest == [k \in 1..(Len(s) - 1) |-> IF k < i THEN s[k] ELSE s[k + 1]]
  IN [k \in 1..Len(s) |->
        IF k < j THEN rest[k] ELSE IF k = j THEN s[i] ELSE rest[k - 1]]

VARIABLES
  currentPlaylist,        \* let currentPlaylist
  currentlyPlayingIndex,  \* let currentlyPlayingIndex
  playbackStatus,         \* playbackStatusElement: [text, class]
  currentVideo,           \* currentVideoElement.textContent
  uploadStatus,           \* uploadStatus element: [text, class]
  rows,                   \* the <li> children of playlistElement
  dragActive,             \* a drag gesture is in progress
  draggedItem,            \* position in rows of makeSortable's draggedItem, 0 = null
  alertText,              \* text of the last alert() shown
  net,                    \* requests in flight, by <<kind, number>>
  sent,                   \* number of requests sent so far, per kind
  budget,                 \* number of flows the run may still start
  remotePlaylist,         \* playlist held by the remote service
  applied,                \* newest list and status response applied so far
  failed                  \* some request has failed

vars == <<currentPlaylist, currentlyPlayingIndex, playbackStatus, currentVideo,
          uploadStatus, rows, dragActive, draggedItem, alertText, net, sent,
          budget, remotePlaylist, applied, failed>>

client == <<currentPlaylist, currentlyPlayingIndex, playbackStatus, currentVideo,
            uploadStatus, rows, dragActive, draggedItem, alertText>>

\* ------------------------------------------------------------ the network
Kinds == {"list", "status", "reorder", "upload", "delete", "command"}

\* fetch(...): one more request of this kind in flight; requests of a kind
\* are numbered in the order they are sent
Send(nt, kind, n, arg) ==
  [i \in (DOMAIN nt) \cup {<<kind, n>>} |->
     IF i = <<kind, n>> THEN [kind |-> kind, arg |-> arg, stage |-> "req"]
     ELSE nt[i]]

Drop(nt, id) == [i \in (DOMAIN nt) \ {id} |-> nt[i]]

Reply(nt, id, res, body) ==
  [nt EXCEPT ![id] = [kind |-> nt[id].kind, arg |-> nt[id].arg,
                      stage |-> "resp", res |-> res, body |-> body]]

\* a new flow may start
CanStart == budget > 0

\* ------------------------------------------------------------- rendering
Placeholder ==
  [text |-> "Playlist is empty. Upload some videos!", filename |-> "undefined",
   index |-> -1, playing |-> FALSE, draggable |-> TRUE]

ErrorRow ==
  [text |-> "Error loading playlist.", filename |-> "undefined",
   index |-> -1, playing |-> FALSE, draggable |-> FALSE]

\* renderPlaylist(): the rows built from the closure state; makeSortable()
\* makes every row draggable
RenderRows(pl, idx, statusText) ==
  IF Len(pl) = 0 THEN <<Placeholder>>
  ELSE [i \in 1..Len(pl) |->
          [text |-> pl[i].name, filename |-> pl[i].filename, index |-> i - 1,
           playing |-> (i - 1 = idx /\ Includes(statusText, "Playing")),
           draggable |-> TRUE]]

\* the part of the page state that fetchPlaybackStatus reads and writes
StatusView ==
  [currentPlaylist |-> currentPlaylist,
   currentlyPlayingIndex |-> currentlyPlayingIndex,
   playbackStatus |-> playbackStatus,
   currentVideo |-> currentVideo,
   rows |-> rows,
   draggedItem |-> draggedItem]

\* fetchPlaybackStatus with renderPlaylist() run before the facets are written
ApplyStatusRenderFirst(st, s) ==
  [currentPlaylist |-> st.currentPlaylist,
   currentlyPlayingIndex |->
     IF s.isPlaying
     THEN IF s.currentVideo # <<>> THEN s.currentIndex ELSE -1
     ELSE st.currentlyPlayingIndex,
   playbackStatus |->
     IF s.isPlaying
     THEN [text |-> "Status: Playing", class |-> "status-playing"]
     ELSE [text |-> "Status: Stopped/Idle", class |-> "status-idle"],
   currentVideo |->
     IF s.isPlaying
     THEN IF s.currentVideo # <<>>
          THEN "Current Video: " \o s.currentVideo[1].name
          ELSE "Current Video: Unknown"
     ELSE IF s.currentVideo # <<>> /\ s.currentVideo[1].name = "Black Screen"
          THEN "Current Video: Black Screen"
          ELSE "Current Video: None",
   rows |-> RenderRows(st.currentPlaylist, st.currentlyPlayingIndex,
                       st.playbackStatus.text),
   draggedItem |-> 0]

\* fetchPlaybackStatus without the 'Black Screen' case of lines 260-262
ApplyStatusNoSentinel(st, s) ==
  LET ps == IF s.isPlaying
            THEN [text |-> "Status: Playing", class |-> "status-playing"]
            ELSE [text |-> "Status: Stopped/Idle", class |-> "status-idle"]
      cv == IF s.isPlaying
            THEN IF s.currentVideo # <<>>
                 THEN "Current Video: " \o s.currentVideo[1].name
                 ELSE "Current Video: Unknown"
            ELSE "Current Video: None"
      idx == IF s.isPlaying
             THEN IF s.currentVideo # <<>> THEN s.currentIndex ELSE -1
             ELSE st.currentlyPlayingIndex
  IN [currentPlaylist |-> st.currentPlaylist,
      currentlyPlayingIndex |-> idx,
      playbackStatus |-> ps,
      currentVideo |-> cv,
      rows |-> RenderRows(st.currentPlaylist, idx, ps.text),
      draggedItem |-> 0]

\* fetchPlaybackStatus with the index reset of line 264 enabled
ApplyStatusResetIdle(st, s) ==
  LET ps == IF s.isPlaying
            THEN [text |-> "Status: Playing", class |-> "status-playing"]
            ELSE [text |-> "Status: Stopped/Idle", class |-> "status-idle"]
      cv == IF s.isPlaying
            THEN IF s.currentVideo # <<>>
                 THEN "Current Video: " \o s.currentVideo[1].name
                 ELSE "Current Video: Unknown"
            ELSE IF s.currentVideo # <<>> /\ s.currentVideo[1].name = "Black Screen"
                 THEN "Current Video: Black Screen"
                 ELSE "Current Video: None"
      idx == IF s.isPlaying
             THEN IF s.currentVideo # <<>> THEN s.currentIndex ELSE -1
             ELSE -1
  IN [currentPlaylist |-> st.currentPlaylist,
      currentlyPlayingIndex |-> idx,
      playbackStatus |-> ps,
      currentVideo |-> cv,
      rows |-> RenderRows(st.currentPlaylist, idx, ps.text),
      draggedItem |-> 0]

\* fetchPlaybackStatus, try branch: the status body s is applied to view st
ApplyStatus(st, s) ==
  LET ps == IF s.isPlaying
            THEN [text |-> "Status: Playing", class |-> "status-playing"]
            ELSE [text |-> "Status: Stopped/Idle", class |-> "status-idle"]
      cv == IF s.isPlaying
            THEN IF s.currentVideo # <<>>
                 THEN "Current Video: " \o s.currentVideo[1].name
                 ELSE "Current Video: Unknown"
            ELSE IF s.currentVideo # <<>> /\ s.currentVideo[1].name = "Black Screen"
                 THEN "Current Video: Black Screen"
                 ELSE "Current Video: None"
      idx == IF s.isPlaying
             THEN IF s.currentVideo # <<>> THEN s.currentIndex ELSE -1
             ELSE st.currentlyPlayingIndex
  IN [currentPlaylist |-> st.currentPlaylist,
      currentlyPlayingIndex |-> idx,
      playbackStatus |-> ps,
      currentVideo |-> cv,
      rows |-> RenderRows(st.currentPlaylist, idx, ps.text),
      draggedItem |-> 0]

\* the catch branch with the index reset of line 275 enabled
ApplyStatusErrorReset(st) ==
  LET ps == [text |-> "Status: Error fetching status", class |-> "status-error"]
  IN [currentPlaylist |-> st.currentPlaylist,
      currentlyPlayingIndex |-> -1,
      playbackStatus |-> ps,
      currentVideo |-> "Current Video: Unknown",
      rows |-> RenderRows(st.currentPlaylist, -1, ps.text),
      draggedItem |-> 0]

\* fetchPlaybackStatus, catch branch
ApplyStatusError(st) ==
  LET ps == [text |-> "Status: Error fetching status", class |-> "status-error"]
  IN [currentPlaylist |-> st.currentPlaylist,
      currentlyPlayingIndex |-> st.currentlyPlayingIndex,
      playbackStatus |-> ps,
      currentVideo |-> "Current Video: Unknown",
      rows |-> RenderRows(st.currentPlaylist, st.currentlyPlayingIndex, ps.text),
      draggedItem |-> 0]

SetStatusView(st) ==
  /\ currentPlaylist' = st.currentPlaylist
  /\ currentlyPlayingIndex' = st.currentlyPlayingIndex
  /\ playbackStatus' = st.playbackStatus
  /\ currentVideo' = st.currentVideo
  /\ rows' = st.rows
  /\ draggedItem' = st.draggedItem

\* ------------------------------------------------------------------- Init
NoneSent == [k \in Kinds |-> 0]

\* the state when the DOMContentLoaded handler returns: fetchPlaylist() and
\* fetchPlaybackStatus() have each sent their request
Loaded(n, playlists) ==
  /\ currentPlaylist = <<>>
  /\ currentlyPlayingIndex = -1
  /\ playbackStatus = [text |-> "", class |-> ""]
  /\ currentVideo = ""
  /\ uploadStatus = [text |-> "", class |-> ""]
  /\ rows = <<>>
  /\ dragActive = FALSE
  /\ draggedItem = 0
  /\ alertText = ""
  /\ net = Send(Send(<<>>, "list", 1, <<>>), "status", 1, <<>>)
  /\ sent = [NoneSent EXCEPT !["list"] = 1, !["status"] = 1]
  /\ budget = n
  /\ remotePlaylist \in playlists
  /\ applied = [list |-> 0, status |-> 0, staleList |-> FALSE,
                afterDelete |-> {}]
  /\ failed = FALSE

Init == Loaded(MaxFlows, InitialPlaylists)

InitRace == Loaded(MaxRaceFlows, RacePlaylists)

InitDrag == Loaded(MaxRaceFlows, DragPlaylists)

\* ------------------------------------------------------ the remote service
\* status bodies the service may report while it holds playlist pl
StatusBodies(pl) ==
  {[isPlaying |-> p, currentVideo |-> <<pl[i]>>, currentIndex |-> i - 1] :
      p \in BOOLEAN, i \in 1..Len(pl)}
  \cup {[isPlaying |-> p, currentVideo |-> <<>>, currentIndex |-> NullIndex] :
      p \in BOOLEAN}
  \cup {[isPlaying |-> FALSE, currentVideo |-> <<BlackScreen>>,
         currentIndex |-> NullIndex]}

Pending(id, kind) ==
  /\ id \in DOMAIN net
  /\ net[id].kind = kind
  /\ net[id].stage = "req"

Arrived(id, kind) ==
  /\ id \in DOMAIN net
  /\ net[id].kind = kind
  /\ net[id].stage = "resp"

\* the entries of pl in the order of the filename sequence order
Reordered(pl, order) ==
  [i \in 1..Len(order) |->
     pl[CHOOSE k \in 1..Len(pl) : pl[k].filename = order[i]]]

\* GET /api/videos
ServeList(id) ==
  /\ Pending(id, "list")
  /\ \/ net' = Reply(net, id, "ok", remotePlaylist)
     \/ net' = Reply(net, id, "fail", <<>>)
  /\ UNCHANGED <<client, sent, budget, remotePlaylist, applied, failed>>

\* GET /api/playback/status
ServeStatus(id) ==
  /\ Pending(id, "status")
  /\ \/ \E s \in StatusBodies(remotePlaylist) : net' = Reply(net, id, "ok", s)
     \/ net' = Reply(net, id, "fail", <<>>)
  /\ UNCHANGED <<client, sent, budget, remotePlaylist, applied, failed>>

\* POST /api/playlist/reorder
ServeReorder(id) ==
  /\ Pending(id, "reorder")
  /\ \/ /\ Len(net[id].arg) = Len(remotePlaylist)
        /\ Range(net[id].arg) = Range(Filenames(remotePlaylist))
        /\ remotePlaylist' = Reordered(remotePlaylist, net[id].arg)
        /\ net' = Reply(net, id, "ok", [message |-> "Playlist reordered"])
     \/ /\ net' = Reply(net, id, "fail", <<>>)
        /\ UNCHANGED remotePlaylist
  /\ UNCHANGED <<client, sent, budget, applied, failed>>

\* POST /api/videos/upload
ServeUpload(id) ==
  /\ Pending(id, "upload")
  /\ \/ /\ remotePlaylist' =
              IF net[id].arg \in Range(Filenames(remotePlaylist))
              THEN remotePlaylist
              ELSE Append(remotePlaylist, Entry(net[id].arg))
        /\ net' = Reply(net, id, "ok",
                        [message |-> "Video uploaded", filename |-> net[id].arg])
     \/ /\ \E r \in Reasons : net' = Reply(net, id, "http", [error |-> r])
        /\ UNCHANGED remotePlaylist
     \/ /\ net' = Reply(net, id, "throw", <<>>)
        /\ UNCHANGED remotePlaylist
  /\ UNCHANGED <<client, sent, budget, applied, failed>>

\* DELETE /api/videos/{filename}
ServeDelete(id) ==
  /\ Pending(id, "delete")
  /\ \/ /\ net[id].arg \in Range(Filenames(remotePlaylist))
        /\ remotePlaylist' =
              FilterSeq(remotePlaylist, Range(remotePlaylist) \ {Entry(net[id].arg)})
        /\ net' = Reply(net, id, "ok", [message |-> "Video deleted"])
     \/ /\ \E r \in Reasons : net' = Reply(net, id, "http", [error |-> r])
        /\ UNCHANGED remotePlaylist
     \/ /\ net' = Reply(net, id, "throw", <<>>)
        /\ UNCHANGED remotePlaylist
  /\ UNCHANGED <<client, sent, budget, applied, failed>>

\* POST /api/playback/{command}
ServeCommand(id) ==
  /\ Pending(id, "command")
  /\ \/ net' = Reply(net, id, "ok", [message |-> "ok"])
     \/ \E r \in Reasons : net' = Reply(net, id, "http", [error |-> r])
     \/ net' = Reply(net, id, "badjson", <<>>)
     \/ net' = Reply(net, id, "throw", <<>>)
  /\ UNCHANGED <<client, sent, budget, remotePlaylist, applied, failed>>

\* ------------------------------------------------------------- the client
Max(a, b) == IF a >= b THEN a ELSE b

\* one more request of kind k has been sent
Count(k) == [sent EXCEPT ![k] = @ + 1]

\* setInterval(fetchPlaybackStatus, 3000): a tick sends a status request
TimerTick ==
  /\ CanStart
  /\ net' = Send(net, "status", sent["status"] + 1, <<>>)
  /\ sent' = Count("status")
  /\ budget' = budget - 1
  /\ UNCHANGED <<client, remotePlaylist, applied, failed>>

\* fetchPlaylist, try branch: the response is installed and rendered
FetchPlaylistOk(id) ==
  /\ Arrived(id, "list")
  /\ net[id].res = "ok"
  /\ currentPlaylist' = net[id].body
  /\ rows' = RenderRows(net[id].body, currentlyPlayingIndex, playbackStatus.text)
  /\ draggedItem' = 0
  /\ net' = Drop(net, id)
  /\ applied' = [applied EXCEPT !.list = Max(@, id[2]),
                              !.staleList = @ \/ id[2] < applied.list]
  /\ UNCHANGED <<currentlyPlayingIndex, playbackStatus, currentVideo, uploadStatus,
                 dragActive, alertText, sent, budget, remotePlaylist, failed>>

\* fetchPlaylist, catch branch
FetchPlaylistFail(id) ==
  /\ Arrived(id, "list")
  /\ net[id].res = "fail"
  /\ rows' = <<ErrorRow>>
  /\ draggedItem' = 0
  /\ net' = Drop(net, id)
  /\ failed' = TRUE
  /\ UNCHANGED <<currentPlaylist, currentlyPlayingIndex, playbackStatus,
                 currentVideo, uploadStatus, dragActive, alertText, sent, budget,
                 remotePlaylist, applied>>

\* fetchPlaybackStatus, try branch
FetchStatusOk(id) ==
  /\ Arrived(id, "status")
  /\ net[id].res = "ok"
  /\ SetStatusView(ApplyStatus(StatusView, net[id].body))
  /\ net' = Drop(net, id)
  /\ applied' = [applied EXCEPT !.status = Max(@, id[2])]
  /\ UNCHANGED <<uploadStatus, dragActive, alertText, sent, budget,
                 remotePlaylist, failed>>

\* fetchPlaybackStatus, catch branch
FetchStatusFail(id) ==
  /\ Arrived(id, "status")
  /\ net[id].res = "fail"
  /\ SetStatusView(ApplyStatusError(StatusView))
  /\ net' = Drop(net, id)
  /\ failed' = TRUE
  /\ UNCHANGED <<uploadStatus, dragActive, alertText, sent, budget,
                 remotePlaylist, applied>>

\* dragstart on row i
DragStart(i) ==
  /\ ~dragActive
  /\ CanStart
  /\ i \in 1..Len(rows)
  /\ rows[i].draggable
  /\ dragActive' = TRUE
  /\ draggedItem' = i
  /\ budget' = budget - 1
  /\ UNCHANGED <<currentPlaylist, currentlyPlayingIndex, playbackStatus,
                 currentVideo, uploadStatus, rows, alertText, net, sent,
                 remotePlaylist, applied, failed>>

\* dragover: the dragged row is re-inserted at position j
DragOver(j) ==
  /\ dragActive
  /\ draggedItem # 0
  /\ j \in 1..Len(rows)
  /\ j # draggedItem
  /\ rows' = MoveTo(rows, draggedItem, j)
  /\ draggedItem' = j
  /\ UNCHANGED <<currentPlaylist, currentlyPlayingIndex, playbackStatus,
                 currentVideo, uploadStatus, dragActive, alertText, net, sent,
                 budget, remotePlaylist, applied, failed>>

\* li.dataset.filename of every row, in DOM order
RowFilenames == [i \in 1..Len(rows) |-> rows[i].filename]

\* dragend: updatePlaylistOrder up to its first await
DragEnd ==
  /\ dragActive
  /\ dragActive' = FALSE
  /\ draggedItem' = 0
  /\ IF Len(RowFilenames) # Len(currentPlaylist)
     THEN /\ net' = Send(net, "list", sent["list"] + 1, <<>>)
          /\ sent' = Count("list")
     ELSE /\ net' = Send(net, "reorder", sent["reorder"] + 1, RowFilenames)
          /\ sent' = Count("reorder")
  /\ UNCHANGED <<currentPlaylist, currentlyPlayingIndex, playbackStatus,
                 currentVideo, uploadStatus, rows, alertText, budget,
                 remotePlaylist, applied, failed>>

\* updatePlaylistOrder after a successful reorder response
ReorderOk(id) ==
  /\ Arrived(id, "reorder")
  /\ net[id].res = "ok"
  /\ currentPlaylist' = MapFind(net[id].arg, currentPlaylist)
  /\ net' = Send(Drop(net, id), "status", sent["status"] + 1, <<>>)
  /\ sent' = Count("status")
  /\ rows' = RenderRows(currentPlaylist', currentlyPlayingIndex, playbackStatus.text)
  /\ draggedItem' = 0
  /\ UNCHANGED <<currentlyPlayingIndex, playbackStatus, currentVideo, uploadStatus,
                 dragActive, alertText, budget, remotePlaylist, applied, failed>>

\* updatePlaylistOrder installing the candidate order before it re-fetches
ReorderFailInstall(id) ==
  /\ Arrived(id, "reorder")
  /\ net[id].res = "fail"
  /\ currentPlaylist' = MapFind(net[id].arg, currentPlaylist)
  /\ net' = Send(Drop(net, id), "list", sent["list"] + 1, <<>>)
  /\ sent' = Count("list")
  /\ failed' = TRUE
  /\ UNCHANGED <<currentlyPlayingIndex, playbackStatus, currentVideo,
                 uploadStatus, rows, dragActive, draggedItem, alertText,
                 budget, remotePlaylist, applied>>

\* updatePlaylistOrder, catch branch
ReorderFail(id) ==
  /\ Arrived(id, "reorder")
  /\ net[id].res = "fail"
  /\ net' = Send(Drop(net, id), "list", sent["list"] + 1, <<>>)
  /\ sent' = Count("list")
  /\ failed' = TRUE
  /\ UNCHANGED <<client, budget, remotePlaylist, applied>>

\* uploadForm submit handler up to its first await; f = "" when no file is
\* selected
UploadSubmit(f) ==
  /\ CanStart
  /\ budget' = budget - 1
  /\ IF f = ""
     THEN /\ uploadStatus' = [text |-> "Please select a video file.",
                              class |-> "status-error"]
          /\ UNCHANGED <<net, sent>>
     ELSE /\ uploadStatus' = [text |-> "Uploading...", class |-> "status-pending"]
          /\ net' = Send(net, "upload", sent["upload"] + 1, f)
          /\ sent' = Count("upload")
  /\ UNCHANGED <<currentPlaylist, currentlyPlayingIndex, playbackStatus,
                 currentVideo, rows, dragActive, draggedItem, alertText,
                 remotePlaylist, applied, failed>>

\* the reason with result.error ignored
UploadErrorGeneric(result) == "Upload failed"

\* result.error || 'Upload failed'
UploadErrorReason(result) ==
  IF result.error # "" THEN result.error ELSE "Upload failed"

\* uploadForm submit handler, response.ok
UploadOk(id) ==
  /\ Arrived(id, "upload")
  /\ net[id].res = "ok"
  /\ uploadStatus' =
       [text |-> "Success: " \o net[id].body.message \o " (" \o
                 net[id].body.filename \o ")",
        class |-> "status-success"]
  /\ net' = Send(Drop(net, id), "list", sent["list"] + 1, <<>>)
  /\ sent' = Count("list")
  /\ UNCHANGED <<currentPlaylist, currentlyPlayingIndex, playbackStatus,
                 currentVideo, rows, dragActive, draggedItem, alertText, budget,
                 remotePlaylist, applied, failed>>

\* uploadForm submit handler, !response.ok and catch branches
UploadFail(id) ==
  /\ Arrived(id, "upload")
  /\ net[id].res \in {"http", "throw"}
  /\ uploadStatus' =
       IF net[id].res = "http"
       THEN [text |-> "Error: " \o UploadErrorReason(net[id].body),
             class |-> "status-error"]
       ELSE [text |-> "Upload failed. See console for details.",
             class |-> "status-error"]
  /\ net' = Drop(net, id)
  /\ failed' = TRUE
  /\ UNCHANGED <<currentPlaylist, currentlyPlayingIndex, playbackStatus,
                 currentVideo, rows, dragActive, draggedItem, alertText, sent,
                 budget, remotePlaylist, applied>>

\* click on the Delete button of row i; ok is the answer to confirm()
DeleteVideo(i, ok) ==
  /\ i \in 1..Len(rows)
  /\ rows[i].filename # "undefined"
  /\ CanStart
  /\ budget' = budget - 1
  /\ IF ok
     THEN /\ net' = Send(net, "delete", sent["delete"] + 1, rows[i].filename)
          /\ sent' = Count("delete")
     ELSE UNCHANGED <<net, sent>>
  /\ UNCHANGED <<client, remotePlaylist, applied, failed>>

\* the row of filename f is the one rendered as playing
ShownPlaying(f) ==
  \E i \in 1..Len(rows) : rows[i].playing /\ rows[i].filename = f

\* deleteVideo, response.ok; applied.afterDelete remembers the two requests
\* sent here when the deleted file was the one shown as playing
DeleteOk(id) ==
  /\ Arrived(id, "delete")
  /\ net[id].res = "ok"
  /\ net' = Send(Send(Drop(net, id), "list", sent["list"] + 1, <<>>),
                 "status", sent["status"] + 1, <<>>)
  /\ sent' = [sent EXCEPT !["list"] = @ + 1, !["status"] = @ + 1]
  /\ applied' =
       [applied EXCEPT !.afterDelete =
          IF ShownPlaying(net[id].arg)
          THEN {<<"list", sent["list"] + 1>>, <<"status", sent["status"] + 1>>}
          ELSE @]
  /\ UNCHANGED <<client, budget, remotePlaylist, failed>>

\* deleteVideo refreshing the playlist on failure as well
DeleteFailRefetch(id) ==
  /\ Arrived(id, "delete")
  /\ net[id].res \in {"http", "throw"}
  /\ alertText' =
       IF net[id].res = "http"
       THEN "Error deleting video: " \o net[id].body.error
       ELSE "Failed to delete video. See console."
  /\ net' = Send(Drop(net, id), "list", sent["list"] + 1, <<>>)
  /\ sent' = Count("list")
  /\ failed' = TRUE
  /\ UNCHANGED <<currentPlaylist, currentlyPlayingIndex, playbackStatus,
                 currentVideo, uploadStatus, rows, dragActive, draggedItem,
                 budget, remotePlaylist, applied>>

\* deleteVideo, !response.ok and catch branches
DeleteFail(id) ==
  /\ Arrived(id, "delete")
  /\ net[id].res \in {"http", "throw"}
  /\ alertText' =
       IF net[id].res = "http"
       THEN "Error deleting video: " \o net[id].body.error
       ELSE "Failed to delete video. See console."
  /\ net' = Drop(net, id)
  /\ failed' = TRUE
  /\ UNCHANGED <<currentPlaylist, currentlyPlayingIndex, playbackStatus,
                 currentVideo, uploadStatus, rows, dragActive, draggedItem,
                 sent, budget, remotePlaylist, applied>>

\* the commands the page can send: a click on a row plays that file, the
\* five buttons send their command without a filename
CommandGestures ==
  {[command |-> "play", filename |-> rows[i].filename] :
      i \in {k \in 1..Len(rows) : rows[k].filename # "undefined"}}
  \cup {[command |-> c, filename |-> ""] : c \in Commands}

\* sendPlaybackCommand up to its first await
SendPlaybackCommand(g) ==
  /\ g \in CommandGestures
  /\ CanStart
  /\ budget' = budget - 1
  /\ net' = Send(net, "command", sent["command"] + 1, g)
  /\ sent' = Count("command")
  /\ UNCHANGED <<client, remotePlaylist, applied, failed>>

\* sendPlaybackCommand leaving the status to the next timer tick
CommandOkNoPoll(id) ==
  /\ Arrived(id, "command")
  /\ net[id].res = "ok"
  /\ net' = Drop(net, id)
  /\ UNCHANGED <<client, sent, budget, remotePlaylist, applied, failed>>

\* sendPlaybackCommand, success
CommandOk(id) ==
  /\ Arrived(id, "command")
  /\ net[id].res = "ok"
  /\ net' = Send(Drop(net, id), "status", sent["status"] + 1, <<>>)
  /\ sent' = Count("status")
  /\ UNCHANGED <<client, budget, remotePlaylist, applied, failed>>

\* error.message in the catch branch of sendPlaybackCommand
CommandErrorMessage(m) ==
  CASE m.res = "http" ->
         "HTTP error! status: 500, message: " \o m.body.error
    [] m.res = "badjson" ->
         "HTTP error! status: 500, message: Unknown error"
    [] OTHER -> "Failed to fetch"

\* sendPlaybackCommand re-polling the status on failure as well
CommandFailRepoll(id) ==
  /\ Arrived(id, "command")
  /\ net[id].res \in {"http", "badjson", "throw"}
  /\ playbackStatus' = [text |-> "Error: " \o CommandErrorMessage(net[id]),
                        class |-> "status-error"]
  /\ net' = Send(Drop(net, id), "status", sent["status"] + 1, <<>>)
  /\ sent' = Count("status")
  /\ failed' = TRUE
  /\ UNCHANGED <<currentPlaylist, currentlyPlayingIndex, currentVideo,
                 uploadStatus, rows, dragActive, draggedItem, alertText,
                 budget, remotePlaylist, applied>>

\* sendPlaybackCommand, catch branch
CommandFail(id) ==
  /\ Arrived(id, "command")
  /\ net[id].res \in {"http", "badjson", "throw"}
  /\ playbackStatus' = [text |-> "Error: " \o CommandErrorMessage(net[id]),
                        class |-> "status-error"]
  /\ net' = Drop(net, id)
  /\ failed' = TRUE
  /\ UNCHANGED <<currentPlaylist, currentlyPlayingIndex, currentVideo,
                 uploadStatus, rows, dragActive, draggedItem, alertText, sent,
                 budget, remotePlaylist, applied>>

\* ------------------------------------------------------------------- Next
\* the playlist and status fetches every flow ends in, with their service side
Fetches ==
  \/ \E id \in DOMAIN net : FetchPlaylistOk(id)
  \/ \E id \in DOMAIN net : FetchPlaylistFail(id)
  \/ \E id \in DOMAIN net : FetchStatusOk(id)
  \/ \E id \in DOMAIN net : FetchStatusFail(id)
  \/ \E id \in DOMAIN net : ServeList(id)
  \/ \E id \in DOMAIN net : ServeStatus(id)

Polling == TimerTick

Reordering ==
  \/ \E i \in 1..Len(rows) : DragStart(i)
  \/ \E j \in 1..Len(rows) : DragOver(j)
  \/ DragEnd
  \/ \E id \in DOMAIN net : ReorderOk(id)
  \/ \E id \in DOMAIN net : ReorderFail(id)
  \/ \E id \in DOMAIN net : ServeReorder(id)

Uploading ==
  \/ \E f \in Files \cup {""} : UploadSubmit(f)
  \/ \E id \in DOMAIN net : UploadOk(id)
  \/ \E id \in DOMAIN net : UploadFail(id)
  \/ \E id \in DOMAIN net : ServeUpload(id)

Deleting ==
  \/ \E i \in 1..Len(rows), ok \in BOOLEAN : DeleteVideo(i, ok)
  \/ \E id \in DOMAIN net : DeleteOk(id)
  \/ \E id \in DOMAIN net : DeleteFail(id)
  \/ \E id \in DOMAIN net : ServeDelete(id)

Commanding ==
  \/ \E g \in CommandGestures : SendPlaybackCommand(g)
  \/ \E id \in DOMAIN net : CommandOk(id)
  \/ \E id \in DOMAIN net : CommandFail(id)
  \/ \E id \in DOMAIN net : ServeCommand(id)

Next == Fetches \/ Polling \/ Reordering \/ Uploading \/ Deleting \/ Commanding

Spec == Init /\ [][Next]_vars

\* the page with only the timer running
NextPoll == Fetches \/ Polling
SpecPoll == Init /\ [][NextPoll]_vars

\* the user only drags rows
NextReorder == Fetches \/ Reordering
SpecReorder == Init /\ [][NextReorder]_vars

\* the user only uploads
NextUpload == Fetches \/ Polling \/ Uploading
SpecUpload == Init /\ [][NextUpload]_vars

\* the user only deletes
NextDelete == Fetches \/ Deleting
SpecDelete == Init /\ [][NextDelete]_vars

\* the user only sends playback commands
NextCommand == Fetches \/ Commanding
SpecCommand == Init /\ [][NextCommand]_vars

\* the user drags rows and uploads, two flows in one run
NextRace == Fetches \/ Reordering \/ Uploading
SpecRace == InitRace /\ [][NextRace]_vars

\* the user only drags rows, two or more drags in one run
SpecDrag == InitDrag /\ [][NextReorder]_vars

\* ----------------------------------------------------------------- claims
IsNone(i) == i = -1 \/ i = NullIndex

StartsWith(text, prefix) ==
  Len(text) >= Len(prefix) /\ SubSeq(text, 1, Len(prefix)) = prefix

\* every status body of the contract over the files of the model
AllStatuses ==
  {[isPlaying |-> p, currentVideo |-> v, currentIndex |-> i] :
      p \in BOOLEAN,
      v \in {<<>>, <<BlackScreen>>} \cup {<<Entry(f)>> : f \in Files},
      i \in {NullIndex} \cup (0..(Cardinality(Files) - 1))}

\* C1: in every reachable state currentlyPlayingIndex is -1/none or a valid
\* index into currentPlaylist.
C1_PlayingIndexValid ==
  \/ IsNone(currentlyPlayingIndex)
  \/ currentlyPlayingIndex \in 0..(Len(currentPlaylist) - 1)

\* C2: when a reorder request succeeds and its candidate order is a
\* permutation of the filenames of the local items, the items after the flow
\* are the same entries in exactly the candidate order.
C2_ReorderInstallsCandidate ==
  [][\A id \in DOMAIN net :
       (/\ ReorderOk(id)
        /\ Len(net[id].arg) = Len(currentPlaylist)
        /\ Range(net[id].arg) = Range(Filenames(currentPlaylist)))
       => /\ Filenames(currentPlaylist') = net[id].arg
          /\ Len(currentPlaylist') = Len(currentPlaylist)
          /\ Range(currentPlaylist') = Range(currentPlaylist)]_vars

\* C2 witness: the only playlist response applied was [A,B,C] and the
\* response of the reorder request has turned the items into [C,A,B]
C2_Witness ==
  /\ currentPlaylist = <<Entry("c.mp4"), Entry("a.mp4"), Entry("b.mp4")>>
  /\ sent["list"] = 1
  /\ sent["reorder"] = 1
  /\ <<"reorder", 1>> \notin DOMAIN net

\* C3: a reorder whose candidate filename set differs from the local item set
\* when it is applied leaves the old items or installs the result of a full
\* re-fetch, never a filtered subset.
C3_ReorderNeverPartial ==
  [][\A id \in DOMAIN net :
       (/\ ReorderOk(id)
        /\ Range(net[id].arg) # Range(Filenames(currentPlaylist)))
       => \/ currentPlaylist' = currentPlaylist
          \/ currentPlaylist' = remotePlaylist]_vars

\* C4: once every request has completed successfully and no gesture is in
\* progress, the local items equal the remote playlist.  Stated for the runs
\* in which no stale playlist response was applied.
C4_LocalEqualsRemoteWhenQuiet ==
  (/\ DOMAIN net = {}
   /\ ~failed
   /\ ~dragActive
   /\ ~applied.staleList)
  => currentPlaylist = remotePlaylist

\* C5: a response to an earlier-issued playlist fetch or status poll that
\* arrives after the response to a later-issued one does not overwrite the
\* state the newer response installed.
C5_StaleResponseDiscarded ==
  [][\A id \in DOMAIN net :
       /\ (FetchPlaylistOk(id) /\ id[2] < applied.list)
            => currentPlaylist' = currentPlaylist
       /\ (FetchStatusOk(id) /\ id[2] < applied.status)
            => /\ currentlyPlayingIndex' = currentlyPlayingIndex
               /\ playbackStatus' = playbackStatus]_vars

\* C6: applying a status body twice in a row gives the same playlist state
\* (items, index, status facet, current-video facet, rendered rows) as
\* applying it once, for every status body and every reachable prior state.
C6_StatusIdempotent ==
  \A s \in AllStatuses :
    LET once == ApplyStatus(StatusView, s)
    IN ApplyStatus(once, s) = once

\* C6 witness: a playing status has been applied to a loaded playlist, a row
\* is highlighted and re-applying the status changes nothing
C6_Witness ==
  /\ \E i \in 1..Len(rows) : rows[i].playing
  /\ \E s \in AllStatuses :
       /\ s.isPlaying
       /\ s.currentIndex = currentlyPlayingIndex
       /\ ApplyStatus(StatusView, s) = StatusView

\* C7: a failed status poll sets the error status facet and leaves
\* currentlyPlayingIndex and currentPlaylist as they were.
C7_StatusFailSoft ==
  [][\A id \in DOMAIN net :
       FetchStatusFail(id)
       => /\ playbackStatus' = [text |-> "Status: Error fetching status",
                                class |-> "status-error"]
          /\ currentlyPlayingIndex' = currentlyPlayingIndex
          /\ currentPlaylist' = currentPlaylist]_vars

\* C7 witness: a poll has failed while a valid playing index was recorded
C7_Witness ==
  /\ playbackStatus = [text |-> "Status: Error fetching status",
                       class |-> "status-error"]
  /\ currentlyPlayingIndex \in 0..(Len(currentPlaylist) - 1)

\* C8 as stated: a failed upload with body {error: r} shows "Error: r", keeps
\* items and index, and sends no request.
C8_UploadErrorShowsReason ==
  [][\A id \in DOMAIN net :
       (UploadFail(id) /\ net[id].res = "http")
       => /\ uploadStatus' = [text |-> "Error: " \o net[id].body.error,
                              class |-> "status-error"]
          /\ currentPlaylist' = currentPlaylist
          /\ currentlyPlayingIndex' = currentlyPlayingIndex
          /\ sent' = sent]_vars

\* C8 amended: a failed upload with body {error: r} shows "Error: r" when r
\* is not empty and "Error: Upload failed" when r is empty; in both cases
\* items and index are unchanged and no request is sent.
C8_UploadErrorShowsReasonOrDefault ==
  [][\A id \in DOMAIN net :
       (UploadFail(id) /\ net[id].res = "http")
       => /\ uploadStatus'.class = "status-error"
          /\ uploadStatus'.text =
               IF net[id].body.error = "" THEN "Error: Upload failed"
               ELSE "Error: " \o net[id].body.error
          /\ currentPlaylist' = currentPlaylist
          /\ currentlyPlayingIndex' = currentlyPlayingIndex
          /\ sent' = sent]_vars

\* C8 witness: the server-reported reason is on display after a failed upload
\* and the playlist is still loaded
C8_Witness ==
  /\ uploadStatus = [text |-> "Error: unsupported format",
                     class |-> "status-error"]
  /\ Len(currentPlaylist) > 0

\* C9: a failed playback command sets a visible error status facet, leaves
\* currentlyPlayingIndex and currentPlaylist unchanged and sends no status
\* request.
C9_CommandFailKeepsState ==
  [][\A id \in DOMAIN net :
       CommandFail(id)
       => /\ playbackStatus'.class = "status-error"
          /\ StartsWith(playbackStatus'.text, "Error: ")
          /\ currentlyPlayingIndex' = currentlyPlayingIndex
          /\ currentPlaylist' = currentPlaylist
          /\ sent' = sent]_vars

\* C9 witness: a command has failed while a valid playing index was recorded
C9_Witness ==
  /\ playbackStatus.class = "status-error"
  /\ StartsWith(playbackStatus.text, "Error: ")
  /\ currentlyPlayingIndex \in 0..(Len(currentPlaylist) - 1)

\* C10: a failed delete surfaces the failure reason, leaves currentPlaylist
\* and currentlyPlayingIndex untouched and sends neither a playlist fetch nor
\* a status poll.
C10_DeleteFailKeepsState ==
  [][\A id \in DOMAIN net :
       DeleteFail(id)
       => /\ alertText' =
               IF net[id].res = "http"
               THEN "Error deleting video: " \o net[id].body.error
               ELSE "Failed to delete video. See console."
          /\ currentPlaylist' = currentPlaylist
          /\ currentlyPlayingIndex' = currentlyPlayingIndex
          /\ sent' = sent]_vars

\* C10 witness: the server-reported reason has been shown and the list kept
C10_Witness ==
  /\ alertText = "Error deleting video: unsupported format"
  /\ Len(currentPlaylist) > 0

\* C11: after a successful delete of the file shown as playing, once the
\* playlist re-fetch and the status re-poll of that delete have both been
\* applied, in either order, currentlyPlayingIndex is -1/none or a valid
\* index into currentPlaylist.
C11_IndexValidAfterDelete ==
  [][\A id \in DOMAIN net :
       (/\ FetchPlaylistOk(id) \/ FetchStatusOk(id)
        /\ id \in applied.afterDelete
        /\ applied.afterDelete \cap DOMAIN net' = {}
        /\ ~failed)
       => \/ IsNone(currentlyPlayingIndex')
          \/ currentlyPlayingIndex' \in 0..(Len(currentPlaylist') - 1)]_vars

\* C12: whenever a rendered row is highlighted as playing, its filename is the
\* filename of the currentVideo of the last-applied status.  The current-video
\* facet holds the name of that video (it is written by every applied status
\* and by nothing else), and names determine filenames.
C12_HighlightIsReportedVideo ==
  \A i \in 1..Len(rows) :
    rows[i].playing
    => currentVideo = "Current Video: " \o NameOf(rows[i].filename)

\* what the page displays as transport state once status body s is applied
Displayed(s) ==
  LET v == ApplyStatus(StatusView, s)
  IN <<v.playbackStatus.text, v.currentVideo>>

\* C13: the display (status facet with current-video facet) of a status with
\* isPlaying=false and currentVideo.name = "Black Screen" differs from the
\* display of every isPlaying=true status and from the display of every
\* not-playing status without a current video.
C13_BlackScreenDistinct ==
  \A b \in {s \in AllStatuses : ~s.isPlaying /\ s.currentVideo = <<BlackScreen>>} :
    LET shown == Displayed(b)
    IN \A s \in AllStatuses :
         (s.isPlaying \/ s.currentVideo = <<>>) => Displayed(s) # shown

\* C13 witness: a not-playing Black Screen status is on display over a loaded
\* playlist
C13_Witness ==
  /\ playbackStatus.text = "Status: Stopped/Idle"
  /\ currentVideo = "Current Video: Black Screen"
  /\ Len(currentPlaylist) > 0

\* the requests of the mutating flows (reorder, upload, delete) in flight
Mutating == {id \in DOMAIN net : net[id].kind \in {"reorder", "upload", "delete"}}

\* C14: mutations of the playlist state are serialized: at most one reorder,
\* upload or delete request is outstanding at any time.
C14_MutationsSerialized == Cardinality(Mutating) <= 1

\* C15: on either path of the reorder flow (the reorder response is a
\* success, or it is a failure) the flow sends a status request.
C15_ReorderRepollsStatus ==
  [][\A id \in DOMAIN net :
       (ReorderOk(id) \/ ReorderFail(id))
       => /\ sent'["status"] = sent["status"] + 1
          /\ <<"status", sent["status"] + 1>> \in DOMAIN net']_vars

\* C16: a failed reorder request leaves currentPlaylist as it was, sends no
\* further reorder request and sends one playlist request; a successful
\* playlist response replaces currentPlaylist by its body.
C16_ReorderFailReverts ==
  [][\A id \in DOMAIN net :
       /\ ReorderFail(id)
            => /\ currentPlaylist' = currentPlaylist
               /\ sent' = [sent EXCEPT !["list"] = @ + 1]
               /\ <<"list", sent["list"] + 1>> \in DOMAIN net'
       /\ FetchPlaylistOk(id) => currentPlaylist' = net[id].body]_vars

\* C16 witness: a dragged order was refused, the re-fetch of the reorder flow
\* has been applied and the rows show the fetched order again
C16_Witness ==
  /\ sent["reorder"] = 1
  /\ sent["list"] = 2
  /\ applied.list = 2
  /\ failed
  /\ currentPlaylist = <<Entry("a.mp4"), Entry("b.mp4"), Entry("c.mp4")>>
  /\ RowFilenames = Filenames(currentPlaylist)

\* C17: the handling of every successful playback command response sends a
\* status request itself: one more status request is in flight right after
\* it, without a timer tick (no flow is started by the step).
C17_CommandOkPolls ==
  [][\A id \in DOMAIN net :
       CommandOk(id)
       => /\ sent'["status"] = sent["status"] + 1
          /\ <<"status", sent["status"] + 1>> \in DOMAIN net'
          /\ <<"status", sent["status"] + 1>> \notin DOMAIN net
          /\ budget' = budget]_vars

\* C17 witness: a command has succeeded and the status poll sent by its flow
\* has been applied
C17_Witness ==
  /\ sent["command"] = 1
  /\ DOMAIN net = {}
  /\ ~failed
  /\ sent["status"] = 2
  /\ applied.status = 2

\* the status requests in flight
StatusInFlight == {id \in DOMAIN net : net[id].kind = "status"}

\* C18: overlapping status polls are collapsed: a timer tick or a re-poll of
\* a flow that comes while a status request is outstanding adds no second
\* one, so at most one status request is in flight at any time.
C18_StatusPollsCollapsed == Cardinality(StatusInFlight) <= 1

\* C19: when a drag ends with as many rows as currentPlaylist has entries, the
\* reorder request sent carries a duplicate-free permutation of the filenames
\* of currentPlaylist; when the counts differ, no reorder request is sent and
\* a playlist request is sent instead.
C19_ReorderCarriesPermutation ==
  [][DragEnd
     => IF Len(rows) # Len(currentPlaylist)
        THEN /\ sent' = [sent EXCEPT !["list"] = @ + 1]
             /\ <<"list", sent["list"] + 1>> \in DOMAIN net'
        ELSE /\ sent' = [sent EXCEPT !["reorder"] = @ + 1]
             /\ LET order == net'[<<"reorder", sent["reorder"] + 1>>].arg
                IN /\ Len(order) = Len(currentPlaylist)
                   /\ Cardinality(Range(order)) = Len(order)
                   /\ Range(order) = Range(Filenames(currentPlaylist))]_vars

====
